---- MODULE Spec2Model ----
(***************************************************************************)
(* A model of the private star-registry blockchain: the Block class, the   *)
(* BlockMessage challenge format and the Blockchain ledger with its        *)
(* asynchronous append, submission and validation paths.                   *)
(*                                                                         *)
(* Every async method is cut at its await points: one action runs one      *)
(* synchronous segment of one call, and the segments of overlapping calls  *)
(* interleave.  Blocks are objects shared by reference: a call holds the   *)
(* position of a block in the chain, never a copy of it.                   *)
(***************************************************************************)
EXTENDS Integers, Sequences, FiniteSets, TLC

\* ------------------------------------------------------------------ bounds
\* The ledger never holds more than MaxBlocks blocks (pushed or in flight).
MaxBlocks == 3
\* At most MaxInFlight calls overlap.
MaxInFlight == 2
\* The wall clock advances at most MaxElapsedMs milliseconds, TickMs at a time.
MaxElapsedMs == 500
TickMs == 500
\* Wall-clock reading (milliseconds) when the Blockchain is constructed.
StartMs == 900500
\* At most MaxTampers hashes and previous hashes are changed in place.
MaxTampers == 3

\* ------------------------------------------------------------- input sets
Addresses == {"X", "Y"}
Stars == {"s1"}
\* Ages (seconds) of the challenge time embedded in a submitted message.
Ages == {0, 300, 301}

\* ------------------------------------------------------------ null values
\* JavaScript null for a hash / previousBlockHash (the only falsy hash).
Null == <<>>
\* JavaScript undefined for an absent payload field.
Undefined == "undefined"
\* A null Block reference (the `|| null` of the lookups); blocks of the chain
\* are referred to by their position 1..Len(chain).
NoRef == 0

\* ------------------------------------------------------------ Block class
\* JSON.stringify(data): the defined fields in insertion order, each token
\* abbreviated to one byte.
ByteOf(tok) ==
    CASE tok = "owner" -> 111
      [] tok = "star" -> 115
      [] tok = "data" -> 100
      [] tok = "X" -> 88
      [] tok = "Y" -> 89
      [] tok = "s1" -> 49
      [] tok = "s2" -> 50
      [] tok = "M" -> 77
      [] tok = "Genesis Block" -> 71

Tokens == {"owner", "star", "data", "X", "Y", "M", "s1", "s2", "Genesis Block"}

TokOf(byte) == CHOOSE tok \in Tokens : ByteOf(tok) = byte

Field(key, val) == IF val = Undefined THEN <<>> ELSE <<ByteOf(key), ByteOf(val)>>

JsonStringify(data) ==
    Field("owner", data.owner) \o Field("star", data.star) \o Field("data", data.data)

\* Buffer.from(text).toString("hex"): two hex digits per byte.
ToHex(bytes) ==
    [i \in 1..(2 * Len(bytes)) |->
        IF i % 2 = 1 THEN bytes[(i + 1) \div 2] \div 16 ELSE bytes[i \div 2] % 16]

\* hex2ascii(body): one byte per pair of hex digits.
Hex2Ascii(hex) ==
    [i \in 1..(Len(hex) \div 2) |-> 16 * hex[2 * i - 1] + hex[2 * i]]

ValueOf(bytes, key) ==
    IF \E i \in 1..(Len(bytes) \div 2) : bytes[2 * i - 1] = ByteOf(key)
    THEN TokOf(bytes[2 * (CHOOSE i \in 1..(Len(bytes) \div 2) :
                              bytes[2 * i - 1] = ByteOf(key))])
    ELSE Undefined

JsonParse(bytes) ==
    [owner |-> ValueOf(bytes, "owner"),
     star |-> ValueOf(bytes, "star"),
     data |-> ValueOf(bytes, "data")]

StarData(address, star) == [owner |-> address, star |-> star, data |-> Undefined]

GenesisData == [owner |-> Undefined, star |-> Undefined, data |-> "Genesis Block"]

\* new Block(data)
NewBlock(data) ==
    [hash |-> Null,
     height |-> 0,
     body |-> ToHex(JsonStringify(data)),
     time |-> 0,
     previousBlockHash |-> Null]

\* SHA256(JSON.stringify({height, body, time, previousBlockHash})): the digest
\* is collision free, so it is modelled by the tuple of the fields it covers.
SHA256(block) == <<block.height, block.body, block.time, block.previousBlockHash>>

\* Mutant: generateHash() leaves the hash as it is.
GenerateHashSkipped(block) == block

\* Block.generateHash()
GenerateHash(block) == [block EXCEPT !.hash = SHA256(block)]

\* JavaScript null as the value of a decoded body.
JsNull == [null |-> TRUE]

\* Mutant: the genesis test is off by one.
GetBDataOffByOne(block) ==
    IF block.height = 1 THEN JsNull ELSE JsonParse(Hex2Ascii(block.body))

\* Block.getBData(): null for height 0, the decoded payload otherwise.
GetBData(block) ==
    IF block.height = 0 THEN JsNull ELSE JsonParse(Hex2Ascii(block.body))

\* decodedData?.owner
OwnerOf(decoded) == IF decoded = JsNull THEN Undefined ELSE decoded.owner

\* ----------------------------------------------------------- BlockMessage
Description == "starRegistry"

\* BlockMessage.toString(): `${address}:${time}:starRegistry`
MessageToString(address, time) == <<address, time, Description>>

\* new BlockMessage().parse(message): the first two colon-separated fields.
Parse(message) == [address |-> message[1], time |-> message[2]]

\* ------------------------------------------------------ bitcoinjs-message
\* A signature names the address whose key made it and the message signed.
Sign(address, message) == [by |-> address, over |-> message]

\* bitcoinMessage.verify(message, address, signature)
Verify(message, address, signature) ==
    signature.by = address /\ signature.over = message

\* ------------------------------------------------------------------ state
VARIABLES
    chain,      \* Blockchain._chain, a sequence of Block records
    height,     \* Blockchain._height
    clockMs,    \* the wall clock, new Date().getTime()
    calls,      \* the async calls in flight, each at one of its await points
    ret,        \* what the step just taken returned or threw to its caller
    accepted,   \* history: the payloads of the blocks pushed by submitStar
    passed,     \* history: the arguments of the submitStar calls that got
                \* through both gates, in the order the calls were made
    held,       \* the array a client got from the chain getter
    tampers     \* the number of hashes and previous hashes changed in place

vars == <<chain, height, clockMs, calls, ret, accepted, passed, held, tampers>>

Pids == 1..MaxInFlight

\* getTimeInSeconds(): the millisecond clock without its last three digits.
GetTimeInSeconds(ms) == ms \div 1000

\* Seconds between the challenge time of the message of a call (or of what it
\* returned) and the wall clock when the call was made.
Age(r) == GetTimeInSeconds(r.ms) - Parse(r.args.message).time

\* Mutant: the gate lets through the messages of the last five minutes.
ValidTimeWithin(ms, timeInSeconds) == GetTimeInSeconds(ms) - timeInSeconds <= 300

\* ValidTime(timeInSeconds), read at wall-clock time ms.
ValidTime(ms, timeInSeconds) == GetTimeInSeconds(ms) - timeInSeconds > 300

\* Blockchain.getBlockByHash(hash): this._chain.find(...) || null, as the
\* position of the first block with that hash.
GetBlockByHash(c, hash) ==
    IF \E i \in 1..Len(c) : c[i].hash = hash
    THEN CHOOSE i \in 1..Len(c) :
             c[i].hash = hash /\ \A j \in 1..(i - 1) : c[j].hash /= hash
    ELSE NoRef

\* Blockchain.getBlockByHeight(height): the first block with that height.
GetBlockByHeight(c, h) ==
    IF \E i \in 1..Len(c) : c[i].height = h
    THEN CHOOSE i \in 1..Len(c) :
             c[i].height = h /\ \A j \in 1..(i - 1) : c[j].height /= h
    ELSE NoRef

\* Blockchain.getLatestBlock()
GetLatestBlock(c, h) == GetBlockByHeight(c, h)

\* Mutant: the loop of validateChain() goes on for any block found.
TruthyAlways(hash) == TRUE

\* Truthiness of a hash: null is falsy, every digest is truthy.
Truthy(hash) == hash /= Null

\* ------------------------------------------------------------ call records
NoBlock ==
    [hash |-> Null, height |-> -1, body |-> <<>>, time |-> 0,
     previousBlockHash |-> Null]

NoArgs == [address |-> "", message |-> <<>>, signature |-> <<>>, star |-> ""]

\* History taken when a validateChain() walk starts: whether the chain was
\* linked block to block, and the positions whose hash was stale.
NoPre == [linked |-> FALSE, stale |-> {}]

\* The blocks of c whose hash is not the digest of their fields.
Stale(c) == {i \in 1..Len(c) : c[i].hash /= SHA256(c[i])}

\* Block i is at height i - 1 and names the hash of block i - 1; hashes are
\* non-null and pairwise distinct, the genesis alone has no previous hash.
Linked(c) ==
    /\ \A i \in 1..Len(c) : c[i].height = i - 1 /\ c[i].hash /= Null
    /\ \A i \in 1..Len(c) : \A j \in 1..Len(c) : c[i].hash = c[j].hash => i = j
    /\ Len(c) > 0 => c[1].previousBlockHash = Null
    /\ \A i \in 2..Len(c) : c[i].previousBlockHash = c[i - 1].hash

Idle ==
    [op |-> "none", pc |-> "idle", args |-> NoArgs,
     h0 |-> 0,                 \* history: this._height when the call was made
     ms |-> 0,                 \* history: the wall clock when the call was made
     block |-> NoBlock,        \* the Block being appended, until it is pushed
     ref |-> NoRef,            \* its position in the chain once pushed
     found |-> NoRef,          \* the result of the lookup being awaited
     current |-> NoRef,        \* validateChain: currentBlock
     currentHash |-> Null,     \* Block.validate: currentHash
     valid |-> TRUE,           \* validateChain: blockIsValid
     errorLog |-> <<>>,        \* validateChain: errorLog
     snapshot |-> 0,           \* getStarsByWalletAddress: length of this.chain
     decoded |-> JsNull,       \* getStarsByWalletAddress: decodedData awaited
     stars |-> <<>>,           \* getStarsByWalletAddress: stars
     pre |-> NoPre, lookupFailed |-> FALSE]

NoRet ==
    [op |-> "none", outcome |-> "none", error |-> "", value |-> NoRef,
     errors |-> <<>>, args |-> NoArgs, h0 |-> 0, ms |-> 0,
     pre |-> NoPre, lookupFailed |-> FALSE]

\* No array taken from the chain getter yet.  An array is the sequence of the
\* positions of the blocks it refers to; alias tells whether it is the
\* ledger's own array.
NoHeld == [blocks |-> <<>>, alias |-> FALSE, mutated |-> FALSE]

TooOld == "Message is too old!"
Invalid == "Message is invalid!"
InvalidChainError == "InvalidChainError"

\* errorLog entries
LatestNotFound == [msg |-> "Latest block not found!", hash |-> Null]
BlockInvalid(hash) == [msg |-> "Block is invalid!", hash |-> hash]

Quiescent == \A p \in Pids : calls[p].pc = "idle"

\* The calls that will still push a block.
Appending == {p \in Pids : calls[p].pc \in {"addBlock.getLatest", "addBlock.generateHash"}}

FreePid == CHOOSE p \in Pids : calls[p].pc = "idle" /\ \A q \in 1..(p - 1) : calls[q].pc /= "idle"

\* ------------------------------------------------------------ construction
\* _addBlock(block) up to its first await: height and time are assigned and
\* getLatestBlock() has searched the chain ch of height h.
AddBlockEnter(c, block, ms, ch, h) ==
    [c EXCEPT !.pc = "addBlock.getLatest",
              !.h0 = h,
              !.ms = ms,
              !.block = [block EXCEPT !.height = h + 1,
                                      !.time = GetTimeInSeconds(ms)],
              !.found = GetLatestBlock(ch, h)]

\* new Blockchain(): the constructor returns with initializeChain() suspended
\* at the first await of _addBlock(genesis).
Init ==
    /\ chain = <<>>
    /\ height = -1
    /\ clockMs = StartMs
    /\ ret = NoRet
    /\ accepted = <<>>
    /\ passed = <<>>
    /\ held = NoHeld
    /\ tampers = 0
    /\ calls = [p \in Pids |->
          IF p = 1
          THEN AddBlockEnter([Idle EXCEPT !.op = "initializeChain"],
                             NewBlock(GenesisData), StartMs, <<>>, -1)
          ELSE Idle]

\* ---------------------------------------------------------------- _addBlock
\* From the await of getLatestBlock() to the await of generateHash(): the
\* previous hash is read from the latest block as it is now, then the block is
\* hashed.
\* Mutant: the previous hash is never assigned.
LinkBlockUnlinked(block, latestHash) == block

LinkBlock(block, latestHash) == [block EXCEPT !.previousBlockHash = latestHash]

AddBlockLink(p) ==
    LET c == calls[p]
        linked == IF c.found /= NoRef /\ height > -1
                  THEN LinkBlock(c.block, chain[c.found].hash)
                  ELSE c.block
    IN  /\ c.pc = "addBlock.getLatest"
        /\ calls' = [calls EXCEPT ![p] =
              [c EXCEPT !.pc = "addBlock.generateHash",
                        !.block = GenerateHash(linked)]]
        /\ ret' = NoRet
        /\ UNCHANGED <<chain, height, clockMs, accepted, passed, held, tampers>>

\* validateChain() up to its first await, on the chain ch of height h.
ValidateChainEnter(c, ch, h) ==
    [c EXCEPT !.pc = "validateChain.getLatest",
              !.errorLog = <<>>,
              !.found = GetLatestBlock(ch, h),
              !.pre = [linked |-> Linked(ch), stale |-> Stale(ch)],
              !.lookupFailed = FALSE]

\* Mutant: the block is pushed and the height left as it was.
NextHeightStuck(h) == h

\* this._height++
NextHeight(h) == h + 1

\* From the await of generateHash() to the first await of validateChain():
\* the block is pushed and the height incremented.

AddBlockPush(p) ==
    LET c == calls[p] IN
    /\ c.pc = "addBlock.generateHash"
    /\ chain' = Append(chain, c.block)
    /\ height' = NextHeight(height)
    /\ accepted' = IF c.op = "submitStar"
                   THEN Append(accepted, StarData(c.args.address, c.args.star))
                   ELSE accepted
    /\ calls' = [calls EXCEPT ![p] =
          ValidateChainEnter([c EXCEPT !.block = NoBlock, !.ref = Len(chain) + 1],
                             chain', height')]
    /\ ret' = NoRet
    /\ UNCHANGED <<clockMs, passed, held, tampers>>

\* ------------------------------------------------------------ validateChain
\* What the call c hands its caller when validateChain() is over: the
\* InvalidChainError with the error log, or (submitStar) the appended block.
Outcome(c) ==
    [NoRet EXCEPT !.op = c.op,
                  !.outcome = IF Len(c.errorLog) > 0 THEN "rejected" ELSE "resolved",
                  !.error = IF Len(c.errorLog) > 0 THEN InvalidChainError ELSE "",
                  !.errors = c.errorLog,
                  !.value = c.ref,
                  !.args = c.args,
                  !.h0 = c.h0,
                  !.ms = c.ms,
                  !.pre = c.pre,
                  !.lookupFailed = c.lookupFailed]

\* Mutant: a submission whose walk found faults takes its block off again.
ChainAfterWalkRolledBack(c, ch) ==
    IF c.op = "submitStar" /\ Len(c.errorLog) > 0
    THEN SubSeq(ch, 1, Len(ch) - 1) ELSE ch

\* The chain ch when the walk of the call c is over: validateChain() only
\* throws, and _addBlock has nothing after its await of validateChain().
ChainAfterWalk(c, ch) == ch

\* Mutant: validate() compares without writing the digest back.
ValidateKeepsHash(block) == block

\* Block.validate() up to its await: generateHash() assigns this.hash.
ValidateRehash(block) == GenerateHash(block)

\* The head of the while loop for the call c: either currentBlock.validate()
\* runs up to its await of generateHash(), which rewrites the block's hash,
\* or the loop is over and the call completes.
ValidateChainLoop(p, c) ==
    IF c.current /= NoRef /\ Truthy(chain[c.current].previousBlockHash)
    THEN /\ chain' = [chain EXCEPT ![c.current] = ValidateRehash(@)]
         /\ calls' = [calls EXCEPT ![p] =
               [c EXCEPT !.pc = "validate.generateHash",
                         !.currentHash = chain[c.current].hash]]
         /\ ret' = NoRet
    ELSE /\ chain' = ChainAfterWalk(c, chain)
         /\ calls' = [calls EXCEPT ![p] = Idle]
         /\ ret' = Outcome(c)

\* After the await of getLatestBlock().
ValidateChainBegin(p) ==
    LET c == calls[p] IN
    /\ c.pc = "validateChain.getLatest"
    /\ ValidateChainLoop(p,
          [c EXCEPT !.current = c.found,
                    !.errorLog = IF c.found = NoRef THEN <<LatestNotFound>> ELSE <<>>])
    /\ UNCHANGED <<height, clockMs, accepted, passed, held, tampers>>

\* Mutant: validate() resolves true whatever the hashes.
HashesMatchAlways(currentHash, hash) == TRUE

\* currentHash === this.hash
HashesMatch(currentHash, hash) == currentHash = hash

\* Block.validate() after its await of generateHash(): the comparison.
ValidateCompare(p) ==
    LET c == calls[p] IN
    /\ c.pc = "validate.generateHash"
    /\ calls' = [calls EXCEPT ![p] =
          [c EXCEPT !.pc = "validateChain.validate",
                    !.valid = HashesMatch(c.currentHash, chain[c.current].hash)]]
    /\ ret' = NoRet
    /\ UNCHANGED <<chain, height, clockMs, accepted, passed, held, tampers>>

\* Mutant: the walk keeps the first fault only.
LogFaultFirst(errorLog, entry) == IF errorLog = <<>> THEN <<entry>> ELSE errorLog

\* errorLog.push(...)
LogFault(errorLog, entry) == Append(errorLog, entry)

\* After the await of currentBlock.validate(): the fault is logged and the
\* previous block looked up by hash.
ValidateChainRecord(p) ==
    LET c == calls[p]
        found == GetBlockByHash(chain, chain[c.current].previousBlockHash)
    IN  /\ c.pc = "validateChain.validate"
        /\ calls' = [calls EXCEPT ![p] =
              [c EXCEPT !.pc = "validateChain.getBlockByHash",
                        !.errorLog = IF c.valid THEN @
                                     ELSE LogFault(@, BlockInvalid(chain[c.current].hash)),
                        !.found = found,
                        !.lookupFailed = @ \/ found = NoRef]]
        /\ ret' = NoRet
        /\ UNCHANGED <<chain, height, clockMs, accepted, passed, held, tampers>>

\* After the await of getBlockByHash(): the walk moves to the block found.
ValidateChainNext(p) ==
    LET c == calls[p] IN
    /\ c.pc = "validateChain.getBlockByHash"
    /\ ValidateChainLoop(p, [c EXCEPT !.current = c.found])
    /\ UNCHANGED <<height, clockMs, accepted, passed, held, tampers>>

\* A call of validateChain() by a client of the ledger.
ValidateChain(p) ==
    /\ calls[p].pc = "idle"
    /\ calls' = [calls EXCEPT ![p] =
          ValidateChainEnter([Idle EXCEPT !.op = "validateChain", !.h0 = height],
                             chain, height)]
    /\ ret' = NoRet
    /\ UNCHANGED <<chain, height, clockMs, accepted, passed, held, tampers>>

\* --------------------------------------------------------------- submitStar
\* The messages a client may submit for an address at wall-clock time ms: the
\* challenge format with a challenge time of any of the Ages.
Messages(ms, address) ==
    {MessageToString(address, GetTimeInSeconds(ms) - age) : age \in Ages}

\* The signatures a client may submit with a message: any address's signature
\* over it.
Signatures(message) == {Sign(a, message) : a \in Addresses}

Rejected(op, error, args) ==
    [NoRet EXCEPT !.op = op, !.outcome = "rejected", !.error = error,
                  !.args = args, !.h0 = height, !.ms = clockMs]

Resolved(op, value, args) ==
    [NoRet EXCEPT !.op = op, !.outcome = "resolved", !.value = value,
                  !.args = args, !.h0 = height, !.ms = clockMs]

\* submitStar(address, message, signature, star) up to the first await of
\* _addBlock, or to the throw of one of its two gates.
SubmitStar(address, message, signature, star) ==
    LET args == [address |-> address, message |-> message,
                 signature |-> signature, star |-> star]
        messageTime == Parse(message).time
    IN  /\ UNCHANGED <<chain, height, clockMs, accepted, held, tampers>>
        /\ passed' = IF Age([ms |-> clockMs, args |-> args]) > 300
                        /\ Verify(message, address, signature)
                     THEN Append(passed, args) ELSE passed
        /\ IF ~ValidTime(clockMs, messageTime)
           THEN /\ ret' = Rejected("submitStar", TooOld, args)
                /\ calls' = calls
           ELSE IF ~Verify(message, address, signature)
           THEN /\ ret' = Rejected("submitStar", Invalid, args)
                /\ calls' = calls
           ELSE /\ \E p \in Pids : calls[p].pc = "idle"
                /\ Len(chain) + Cardinality(Appending) < MaxBlocks
                /\ calls' = [calls EXCEPT ![FreePid] =
                      AddBlockEnter([Idle EXCEPT !.op = "submitStar", !.args = args],
                                    NewBlock(StarData(address, star)),
                                    clockMs, chain, height)]
                /\ ret' = NoRet

\* requestMessageOwnershipVerification(address)
RequestMessageOwnershipVerification(address) ==
    /\ ret' = Resolved("requestMessageOwnershipVerification",
                       MessageToString(address, GetTimeInSeconds(clockMs)),
                       [NoArgs EXCEPT !.address = address])
    /\ UNCHANGED <<chain, height, clockMs, calls, accepted, passed, held, tampers>>

\* ------------------------------------------------------------ the lookups
\* A hash that is the digest of no block.
Forged == <<"forged">>

\* The hashes a client may look up: null, a hash no block has, and the hashes
\* and previous hashes found in the chain c.
Hashes(c) ==
    {Null, Forged} \cup {c[i].hash : i \in 1..Len(c)}
                   \cup {c[i].previousBlockHash : i \in 1..Len(c)}

\* getBlockByHash(hash), called by a client: it has no await inside.
GetBlockByHashCall(hash) ==
    /\ ret' = Resolved("getBlockByHash", GetBlockByHash(chain, hash),
                       [hash |-> hash])
    /\ UNCHANGED <<chain, height, clockMs, calls, accepted, passed, held, tampers>>

\* getBlockByHeight(height), called by a client.
GetBlockByHeightCall(h) ==
    /\ ret' = Resolved("getBlockByHeight", GetBlockByHeight(chain, h),
                       [height |-> h])
    /\ UNCHANGED <<chain, height, clockMs, calls, accepted, passed, held, tampers>>

\* getChainHeight()
GetChainHeight ==
    /\ ret' = Resolved("getChainHeight", height, NoArgs)
    /\ UNCHANGED <<chain, height, clockMs, calls, accepted, passed, held, tampers>>

\* --------------------------------------------------------- the chain getter
\* Mutant: the getter hands out the ledger's own array.
SliceAlias(c) ==
    [blocks |-> [i \in 1..Len(c) |-> i], alias |-> TRUE, mutated |-> FALSE]

\* this._chain.slice(0): a new array that refers to the same blocks.
Slice(c) ==
    [blocks |-> [i \in 1..Len(c) |-> i], alias |-> FALSE, mutated |-> FALSE]

\* A read of the chain getter by a client, who keeps the array.
GetChain ==
    /\ held' = Slice(chain)
    /\ ret' = Resolved("chain", held'.blocks, NoArgs)
    /\ UNCHANGED <<chain, height, clockMs, calls, accepted, passed, tampers>>

\* The client pops the last element of the array it holds.  The ledger's
\* array shrinks only if the client's array is that very array.
PopHeld ==
    /\ Len(IF held.alias THEN chain ELSE held.blocks) > 0
    /\ chain' = IF held.alias THEN SubSeq(chain, 1, Len(chain) - 1) ELSE chain
    /\ held' = [held EXCEPT !.blocks = IF held.alias
                                       THEN [i \in 1..Len(chain') |-> i]
                                       ELSE SubSeq(@, 1, Len(@) - 1),
                            !.mutated = TRUE]
    /\ ret' = NoRet
    /\ UNCHANGED <<height, clockMs, calls, accepted, passed, tampers>>

\* ------------------------------------------------- getStarsByWalletAddress
\* getStarsByWalletAddress(address) up to its first await: this.chain is
\* copied and the first block decoded.
GetStarsByWalletAddress(p, address) ==
    LET args == [NoArgs EXCEPT !.address = address] IN
    /\ calls[p].pc = "idle"
    /\ IF Len(chain) = 0
       THEN /\ calls' = calls
            /\ ret' = Resolved("getStarsByWalletAddress", <<>>, args)
       ELSE /\ calls' = [calls EXCEPT ![p] =
                  [Idle EXCEPT !.op = "getStarsByWalletAddress",
                               !.pc = "getStars.getBData",
                               !.args = args, !.h0 = height, !.ms = clockMs,
                               !.snapshot = Len(chain),
                               !.current = 1,
                               !.decoded = GetBData(chain[1])]]
            /\ ret' = NoRet
    /\ UNCHANGED <<chain, height, clockMs, accepted, passed, held, tampers>>

\* After the await of block.getBData(): the payload is kept if its owner is
\* the address, and the next block of the copy is decoded.
GetStarsNext(p) ==
    LET c == calls[p]
        stars == IF OwnerOf(c.decoded) = c.args.address
                 THEN Append(c.stars, c.decoded) ELSE c.stars
    IN  /\ c.pc = "getStars.getBData"
        /\ IF c.current < c.snapshot
           THEN /\ calls' = [calls EXCEPT ![p] =
                      [c EXCEPT !.stars = stars,
                                !.current = c.current + 1,
                                !.decoded = GetBData(chain[c.current + 1])]]
                /\ ret' = NoRet
           ELSE /\ calls' = [calls EXCEPT ![p] = Idle]
                /\ ret' = [Resolved("getStarsByWalletAddress", stars, c.args)
                              EXCEPT !.h0 = c.h0, !.ms = c.ms]
        /\ UNCHANGED <<chain, height, clockMs, accepted, passed, held, tampers>>

\* ------------------------------------------------------------ other clients
\* The bodies a tamperer writes: the encoding of a payload of its own.
Bodies == {ToHex(JsonStringify(StarData("M", "s2")))}

\* The values a tamperer writes into the hash or the previous hash of a block
\* of the chain c: null, a hash no block has, the hashes and previous hashes
\* found in the chain, and the digests of the blocks as they are.
TamperHashes(c) == Hashes(c) \cup {SHA256(c[i]) : i \in 1..Len(c)}

\* In-place mutation of the hash of block i.
TamperHash(i, hash) ==
    /\ tampers < MaxTampers
    /\ i \in 1..Len(chain)
    /\ hash /= chain[i].hash
    /\ chain' = [chain EXCEPT ![i].hash = hash]
    /\ tampers' = tampers + 1
    /\ ret' = NoRet
    /\ UNCHANGED <<height, clockMs, calls, accepted, passed, held>>

\* In-place mutation of the previous hash of block i.
TamperPrev(i, hash) ==
    /\ tampers < MaxTampers
    /\ i \in 1..Len(chain)
    /\ hash /= chain[i].previousBlockHash
    /\ chain' = [chain EXCEPT ![i].previousBlockHash = hash]
    /\ tampers' = tampers + 1
    /\ ret' = NoRet
    /\ UNCHANGED <<height, clockMs, calls, accepted, passed, held>>

\* In-place mutation of the body of block i by code holding a reference to it.
TamperBody(i, body) ==
    /\ i \in 1..Len(chain)
    /\ body /= chain[i].body
    /\ chain' = [chain EXCEPT ![i].body = body]
    /\ ret' = NoRet
    /\ UNCHANGED <<height, clockMs, calls, accepted, passed, held>>

\* The wall clock advances.
Tick ==
    /\ clockMs + TickMs <= StartMs + MaxElapsedMs
    /\ clockMs' = clockMs + TickMs
    /\ ret' = NoRet
    /\ UNCHANGED <<chain, height, calls, accepted, passed, held, tampers>>

\* ------------------------------------------------------------ specifications
\* One synchronous segment of the call p.
Step(p) ==
    \/ AddBlockLink(p)
    \/ AddBlockPush(p)
    \/ ValidateChainBegin(p)
    \/ ValidateCompare(p)
    \/ ValidateChainRecord(p)
    \/ ValidateChainNext(p)
    \/ GetStarsNext(p)

\* One synchronous segment of the call p, when it is an append or a
\* validateChain().
WalkStep(p) ==
    \/ AddBlockLink(p)
    \/ AddBlockPush(p)
    \/ ValidateChainBegin(p)
    \/ ValidateCompare(p)
    \/ ValidateChainRecord(p)
    \/ ValidateChainNext(p)

\* A client calls submitStar.
CallSubmitStar ==
    \E address \in Addresses, star \in Stars :
      \E message \in Messages(clockMs, address) :
        \E signature \in Signatures(message) :
          SubmitStar(address, message, signature, star)

\* A client calls requestMessageOwnershipVerification.
CallRequestMessage ==
    \E address \in Addresses : RequestMessageOwnershipVerification(address)

\* A client calls validateChain.
CallValidateChain ==
    /\ \E p \in Pids : calls[p].pc = "idle"
    /\ ValidateChain(FreePid)

\* A client calls getStarsByWalletAddress.
CallGetStars ==
    /\ \E p \in Pids : calls[p].pc = "idle"
    /\ \E address \in Addresses : GetStarsByWalletAddress(FreePid, address)

\* Code holding a reference to a block changes its body in place.
Tamper ==
    /\ \E i \in 1..Len(chain) : \E body \in Bodies : TamperBody(i, body)
    /\ UNCHANGED tampers

\* The same, counted with the changes of hashes and previous hashes.
TamperAnyBody ==
    /\ tampers < MaxTampers
    /\ \E i \in 1..Len(chain) : \E body \in Bodies : TamperBody(i, body)
    /\ tampers' = tampers + 1

\* Calls overlap: a client makes a call while others are at an await point.
Next ==
    \/ \E p \in Pids : Step(p)
    \/ CallSubmitStar
    \/ CallRequestMessage
    \/ CallValidateChain
    \/ CallGetStars
    \/ Tick

Spec == Init /\ [][Next]_vars

\* One call at a time, each awaited before the next is made, once the
\* genesis append is over; no tampering.
NextSeq ==
    \/ \E p \in Pids : Step(p)
    \/ Quiescent /\ CallSubmitStar
    \/ Quiescent /\ CallRequestMessage
    \/ Quiescent /\ CallValidateChain
    \/ Quiescent /\ CallGetStars
    \/ Tick

SpecSeq == Init /\ [][NextSeq]_vars

\* One call at a time, with blocks tampered between the calls.
NextTamper ==
    \/ \E p \in Pids : Step(p)
    \/ Quiescent /\ CallSubmitStar
    \/ Quiescent /\ CallRequestMessage
    \/ Quiescent /\ CallValidateChain
    \/ Quiescent /\ CallGetStars
    \/ Quiescent /\ Tamper
    \/ Tick

SpecTamper == Init /\ [][NextTamper]_vars

\* Code holding a reference to a block changes its hash in place.
TamperAnyHash ==
    \E i \in 1..Len(chain) : \E hash \in TamperHashes(chain) : TamperHash(i, hash)

\* Code holding a reference to a block changes its previous hash in place.
TamperAnyPrev ==
    \E i \in 1..Len(chain) : \E hash \in TamperHashes(chain) : TamperPrev(i, hash)

\* A client submits a star with a message and a signature that pass the two
\* gates of submitStar.
CallSubmitAccepted ==
    \E message \in Messages(clockMs, "X") :
        /\ ValidTime(clockMs, Parse(message).time)
        /\ SubmitStar("X", message, Sign("X", message), "s1")

\* Appends overlap, and between the calls the blocks of the chain are changed
\* in place (body, hash and previous hash) and a client calls validateChain.
NextWalk ==
    \/ \E p \in Pids : WalkStep(p)
    \/ CallSubmitAccepted
    \/ Quiescent /\ CallValidateChain
    \/ Quiescent /\ TamperAnyBody
    \/ Quiescent /\ TamperAnyHash
    \/ Quiescent /\ TamperAnyPrev

\* Every call that is at an await point is resumed: the continuation is a
\* job of the microtask queue, which the event loop drains.
SpecWalk == Init /\ [][NextWalk]_vars /\ \A p \in Pids : WF_vars(WalkStep(p))

\* Code holding a reference to the genesis block changes its hash in place.
TamperGenesisHash == TamperHash(1, Forged)

\* One call at a time, with the bodies of the blocks and the hash of the
\* genesis block changed in place between the calls.
NextGenesis ==
    \/ \E p \in Pids : Step(p)
    \/ Quiescent /\ CallSubmitStar
    \/ Quiescent /\ CallRequestMessage
    \/ Quiescent /\ CallValidateChain
    \/ Quiescent /\ CallGetStars
    \/ Quiescent /\ Tamper
    \/ Quiescent /\ TamperGenesisHash
    \/ Tick

SpecGenesis == Init /\ [][NextGenesis]_vars

\* A client looks a block up by one of the hashes it may know.
CallGetBlockByHash == \E hash \in Hashes(chain) : GetBlockByHashCall(hash)

\* A client looks a block up by height.
CallGetBlockByHeight == \E h \in -1..MaxBlocks : GetBlockByHeightCall(h)

\* Every operation a client has, one call at a time: the submissions, the
\* lookups, the owner query, validateChain, the read of the chain getter and
\* the mutation of the array read; no tampering with the blocks.
NextClient ==
    \/ \E p \in Pids : Step(p)
    \/ Quiescent /\ CallSubmitStar
    \/ Quiescent /\ CallRequestMessage
    \/ Quiescent /\ CallValidateChain
    \/ Quiescent /\ CallGetStars
    \/ Quiescent /\ CallGetBlockByHash
    \/ Quiescent /\ CallGetBlockByHeight
    \/ Quiescent /\ GetChainHeight
    \/ Quiescent /\ GetChain
    \/ Quiescent /\ PopHeld
    \/ Tick

SpecClient == Init /\ [][NextClient]_vars

\* ------------------------------------------------------------------ claims
SignatureVerifies(r) == Verify(r.args.message, r.args.address, r.args.signature)

\* The step just taken completed a call that ran validateChain().
WalkOver == ret.op \in {"validateChain", "submitStar", "initializeChain"}
                /\ ret.error \notin {TooOld, Invalid}

\* C1: once the genesis is appended, and with calls made one at a time and no
\* tampering, every block but the first names the hash of the block before it
\* and sits at the height of its position; the first block alone has height 0,
\* and it has no previous hash.
C1_Linkage ==
    Len(chain) >= 1 =>
        /\ \A i \in 2..Len(chain) :
              /\ chain[i].previousBlockHash = chain[i - 1].hash
              /\ chain[i].height = i - 1
        /\ chain[1].height = 0
        /\ chain[1].previousBlockHash = Null

C1_Witness ==
    /\ Quiescent
    /\ Len(chain) = 3
    /\ ret.op = "submitStar"
    /\ ret.outcome = "resolved"

\* C2: a submitStar whose challenge is at most 300 seconds old and whose
\* signature verifies succeeds: the height grows by one and the block returned
\* is the latest block, at that height, with the submitting address as owner.
C2_SubmissionEndToEnd ==
    (ret.op = "submitStar" /\ Age(ret) <= 300 /\ SignatureVerifies(ret)) =>
        /\ ret.outcome = "resolved"
        /\ height = ret.h0 + 1
        /\ ret.value /= NoRef
        /\ ret.value = GetLatestBlock(chain, height)
        /\ chain[ret.value].height = height
        /\ JsonParse(Hex2Ascii(chain[ret.value].body)).owner = ret.args.address

\* C3: a submitStar whose challenge is more than 300 seconds old is rejected
\* with "Message is too old!" whatever the signature, and appends nothing: no
\* such call gets past the gate, and the height is what it was.
C3_ExpiredRejected ==
    /\ (ret.op = "submitStar" /\ Age(ret) > 300) =>
          ret.outcome = "rejected" /\ ret.error = TooOld /\ height = ret.h0
    /\ \A p \in Pids : calls[p].op = "submitStar" => Age(calls[p]) <= 300

\* C4: a submitStar whose signature does not verify is rejected and appends
\* nothing, and with a challenge at most 300 seconds old the error is
\* "Message is invalid!".
C4_BadSignatureRejected ==
    /\ (ret.op = "submitStar" /\ ~SignatureVerifies(ret)) =>
          /\ ret.outcome = "rejected"
          /\ height = ret.h0
          /\ Age(ret) <= 300 => ret.error = Invalid
    /\ \A p \in Pids : calls[p].op = "submitStar" => SignatureVerifies(calls[p])

\* C5: the time gate of submitStar lets a challenge through exactly when it is
\* at most 300 seconds old: 300 seconds pass, 301 do not.
C5_WindowBoundary ==
    /\ ret.op = "submitStar" => (ret.error = TooOld <=> Age(ret) > 300)
    /\ \A p \in Pids : calls[p].op = "submitStar" => Age(calls[p]) <= 300

\* C6: from the return of the constructor on, and until a submission is made,
\* the ledger has height 0 and exactly one block, which has no previous hash
\* and decodes to null.
C6_GenesisSynchronous ==
    (accepted = <<>> /\ \A p \in Pids : calls[p].op /= "submitStar") =>
        /\ height = 0
        /\ Len(chain) = 1
        /\ chain[1].previousBlockHash = Null
        /\ GetBData(chain[1]) = JsNull

\* C7: however appends overlap, no two blocks of the chain have the same
\* height or the same previous hash, and once every call is over each block
\* sits at the height of its position and names the hash of the block before.
C7_AtomicAppend ==
    /\ \A i \in 1..Len(chain) : \A j \in 1..Len(chain) :
          i /= j => /\ chain[i].height /= chain[j].height
                    /\ chain[i].previousBlockHash /= chain[j].previousBlockHash
    /\ Quiescent =>
          \A i \in 1..Len(chain) :
              /\ chain[i].height = i - 1
              /\ i > 1 => chain[i].previousBlockHash = chain[i - 1].hash

\* C8: when validateChain() walks a chain that was linked block to block when
\* the walk began, it fails with an InvalidChainError that has an entry for
\* every block but the genesis whose hash was stale because its body had been
\* changed in place.
C8_TamperDetected ==
    (WalkOver /\ ret.pre.linked) =>
        \A i \in ret.pre.stale \ {1} :
            /\ ret.outcome = "rejected"
            /\ ret.error = InvalidChainError
            /\ \E k \in 1..Len(ret.errors) : ret.errors[k] = BlockInvalid(chain[i].hash)

C8_Witness ==
    /\ ret.op = "validateChain"
    /\ ret.pre.linked
    /\ ret.pre.stale = {2}
    /\ Len(chain) = 3
    /\ ret.outcome = "rejected"
    /\ ret.errors = <<BlockInvalid(SHA256(chain[2]))>>

\* C9: a validateChain() whose walk looked up a previous hash and found no
\* block fails.
C9_BrokenLinkIsFault ==
    (WalkOver /\ ret.lookupFailed) => ret.outcome = "rejected"

\* C10: with calls made one at a time and no tampering,
\* getStarsByWalletAddress(X) returns the payloads submitted for X, and only
\* those, in the order they were appended.
OwnedBy(payloads, address) ==
    LET Owned(d) == d.owner = address IN SelectSeq(payloads, Owned)

C11_HeightIsSize == height = Len(chain) - 1

\* Two appends overlap: one has pushed its block and is validating the chain,
\* the other is still between its await points, before its push.
C11_Witness ==
    /\ Len(chain) = 2
    /\ \E p, q \in Pids :
          /\ calls[p].pc = "addBlock.generateHash"
          /\ calls[q].op = "submitStar"
          /\ calls[q].pc = "validateChain.validate"

\* C12: across the operations of a client (submissions that succeed or fail,
\* lookups, owner queries, validateChain, reads of the chain getter and
\* mutation of the array read), the chain is only extended at its end: the
\* chain before a step is a prefix of the chain after it, and the height
\* does not decrease.
C12_AppendOnly ==
    [][/\ Len(chain') >= Len(chain)
       /\ SubSeq(chain', 1, Len(chain)) = chain
       /\ height' >= height]_vars

\* A submission has failed after a block was appended and after the client
\* popped an element off the array it had read from the getter.
C12_Witness ==
    /\ held.mutated
    /\ Len(held.blocks) = 1
    /\ Len(chain) = 3
    /\ ret.op = "submitStar"
    /\ ret.outcome = "rejected"

\* The faults of the blocks of c at the positions S, latest position first,
\* each named by the hash validate() has recomputed.
RECURSIVE DescendingFaults(_, _)
DescendingFaults(c, S) ==
    IF S = {} THEN <<>>
    ELSE LET m == CHOOSE i \in S : \A j \in S : j <= i
         IN  <<BlockInvalid(SHA256(c[m]))>> \o DescendingFaults(c, S \ {m})

\* C13: when validateChain() walks a chain that was linked block to block when
\* the walk began, its error list is exactly one fault for each block but the
\* genesis whose body had been changed in place, ordered from the latest
\* block toward the genesis: the walk does not stop at the first fault.
C13_FaultAggregation ==
    (WalkOver /\ ret.pre.linked) =>
        ret.errors = DescendingFaults(chain, ret.pre.stale \ {1})

\* A single validateChain() reports the two tampered blocks, latest first.
C13_Witness ==
    /\ ret.op = "validateChain"
    /\ ret.pre.linked
    /\ ret.pre.stale = {2, 3}
    /\ ret.outcome = "rejected"
    /\ ret.error = InvalidChainError
    /\ ret.errors = <<BlockInvalid(SHA256(chain[3])), BlockInvalid(SHA256(chain[2]))>>

\* C14: when the validateChain() at the end of an append fails, submitStar
\* rejects with the InvalidChainError, and the block it pushed is still the
\* last block of the chain, with the height one more than before the call.
C14_NoRollback ==
    (ret.op = "submitStar" /\ ret.error = InvalidChainError) =>
        /\ ret.outcome = "rejected"
        /\ height = ret.h0 + 1
        /\ Len(chain) = ret.h0 + 2
        /\ ret.value = Len(chain)
        /\ chain[ret.value].body =
              ToHex(JsonStringify(StarData(ret.args.address, ret.args.star)))

\* A submission made after the body of block 2 was changed is rejected with
\* the fault of block 2, and its block is the third of the chain.
C14_Witness ==
    /\ ret.op = "submitStar"
    /\ ret.outcome = "rejected"
    /\ ret.error = InvalidChainError
    /\ ret.pre.stale = {2}
    /\ ret.errors = <<BlockInvalid(SHA256(chain[2]))>>
    /\ Len(chain) = 3
    /\ height = 2

\* The calls that are inside the loop of validateChain(), after the
\* generateHash() of the validate() of their current block.
Validating ==
    {p \in Pids : calls[p].pc \in {"validate.generateHash", "validateChain.validate",
                                    "validateChain.getBlockByHash"}}

\* C15: once validate() has run on a block, the block's hash is the digest of
\* its current fields; validate() is false exactly for the blocks whose hash
\* was stale when the walk began, so a block that was reported and not
\* changed since validates true and is not reported by the next walk.
C15_SelfHealing ==
    /\ \A p \in Validating :
          chain[calls[p].current].hash = SHA256(chain[calls[p].current])
    /\ \A p \in Pids : calls[p].pc = "validateChain.validate" =>
          (calls[p].valid <=> calls[p].current \notin calls[p].pre.stale)
    /\ WalkOver =>
          /\ Stale(chain) \subseteq ret.pre.stale
          /\ \A k \in 1..Len(ret.errors) :
                ret.errors[k] /= LatestNotFound =>
                  \E i \in ret.pre.stale \ Stale(chain) :
                      ret.errors[k] = BlockInvalid(chain[i].hash)

\* The latest block carries a body written in place and its hash is not
\* stale: an earlier walk reported and rehashed it.  This walk has validated
\* it again, down to the genesis, and reports nothing.
C15_Witness ==
    /\ ret.op = "validateChain"
    /\ ret.outcome = "resolved"
    /\ ret.errors = <<>>
    /\ ~ret.lookupFailed
    /\ Len(chain) = 3
    /\ chain[3].body \in Bodies
    /\ ret.pre.stale = {}

\* The block is complete: its height and time have been assigned and its
\* hash is non-null and the digest of its fields.
Complete(block) ==
    /\ block.height >= 0
    /\ block.time > 0
    /\ block.hash /= Null
    /\ block.hash = SHA256(block)

\* C16: with appends overlapping each other and the reads, at every await
\* point every block of the chain is complete and no step changes a block
\* that is in the chain; getBlockByHash(null) finds no block.
C16_NoPartialBlock ==
    /\ [](/\ \A i \in 1..Len(chain) : Complete(chain[i])
          /\ GetBlockByHash(chain, Null) = NoRef)
    /\ [][\A i \in 1..Len(chain) : chain'[i] = chain[i]]_vars

\* An append is between its await points with its block not yet hashed,
\* another has its block hashed and not yet pushed, and the chain holds the
\* genesis block only.
C16_Witness ==
    /\ Len(chain) = 1
    /\ \E p, q \in Pids :
          /\ calls[p].pc = "addBlock.getLatest"
          /\ calls[p].block.hash = Null
          /\ calls[q].pc = "addBlock.generateHash"
          /\ calls[q].block.hash /= Null

\* C17: every validateChain() walk comes to its end, whatever has been done
\* in place to the bodies, hashes and previous hashes of the blocks and
\* whatever appends overlap it: a call inside validateChain() is eventually
\* out of it.
C17_WalkTerminates ==
    \A p \in Pids :
        (calls[p].pc \in {"validateChain.getLatest", "validate.generateHash",
                          "validateChain.validate", "validateChain.getBlockByHash"})
            ~> (calls[p].pc = "idle")

\* The walk went from the latest block to block 2, whose previous hash is the
\* hash the latest block got from its validate(), so back to the latest block;
\* the next lookup failed, because block 2 had been rehashed, and the walk
\* was over.
C17_Witness ==
    /\ ret.op = "validateChain"
    /\ Len(chain) = 3
    /\ chain[3].previousBlockHash = Forged
    /\ chain[2].previousBlockHash = chain[3].hash
    /\ ret.errors = <<BlockInvalid(chain[3].hash), BlockInvalid(chain[2].hash)>>
    /\ ret.lookupFailed

====
